---- MODULE Spec2Model ----
(***************************************************************************)
(* Model of criticality_score: the distribution collectors                 *)
(* (pkg/collector/centos, pkg/collector/alpine), the git_metrics           *)
(* synchronization (pkg/gitmetricsync), the GitHub calls of the enrichment *)
(* (githubmetrics.Run, getProjectType) and the database migrator           *)
(* (cmd/database-migrator).                                                *)
(*                                                                         *)
(* The specifications share the variables:                                 *)
(*   Spec         the metric stages of Collect: closure loop, count loop,  *)
(*                the PageRank iterations and the assignment loop;         *)
(*   SpecParse    the index parsers (getDependencies / getPackageList);    *)
(*   SpecPersist  one run of Collect against the database tables, in which *)
(*                database calls may fail;                                 *)
(*   SpecRerun    two consecutive runs of Collect on the same index;       *)
(*   SpecSync     fetchGitLinks and syncGitMetrics;                        *)
(*   SpecGithub   githubmetrics.Run and getProjectType;                    *)
(*   SpecMigrate  consecutive runs of the database migrator.               *)
(*                                                                         *)
(* PageRank is a float64 in the code.  The model computes it exactly: the  *)
(* value of a package after i iterations is the fraction                   *)
(*        pageRank[v] / (n * RankScale^i)                                  *)
(* whose numerator is a multi-limb natural number.                         *)
(***************************************************************************)
EXTENDS Integers, Sequences, FiniteSets, TLC

VARIABLES
    distro,      \* which collector runs: "centos" or "alpine"
    pc,          \* position inside the running function
    PkgInfoMap,  \* the package index: name -> PackageInfo
    done,        \* keys the current `range` loop has already visited
    depMap,      \* Collect: package -> closure list
    countMap,    \* Collect: name -> number of closures containing it
    pageRank,    \* calculatePageRank: name -> numerator of the rank
    iter,        \* calculatePageRank: loop counter i
    input,       \* parser: the records of the decoded index, in order
    pos,         \* parser: number of records consumed
    pkgTable,    \* <distro>_packages: package -> row
    relTable,    \* <distro>_relationships: set of <<frompackage, topackage>>
    inserted,    \* edges the persistence pass itself inserted
    failed,      \* database calls of the persistence pass that failed
    run,         \* which consecutive Collect run is executing (1 or 2)
    snapshot,    \* tables as they were when run 1 returned
    faults,      \* number of non-unique database errors so far
    openConns,   \* database connections the collector holds open

    packageLinks,     \* git_link column of debian_packages / arch_packages
    gitLinks,         \* fetchGitLinks: the map it returns (its key set)
    normalizedLinks,  \* syncGitMetrics: normalizedLinks (key set)
    dbLinks,          \* syncGitMetrics: dbLinks (key set)
    gitMetrics,       \* table git_metrics: git_link -> row
    gitMetricsBefore, \* git_metrics as it was when the operation started
    syncFailed,       \* links whose DELETE or INSERT failed

    repoLink,    \* githubmetrics.Run / getProjectType: the repository
    attempts,    \* GitHub call -> number of requests issued for it
    callErr,     \* GitHub call -> err after its last request
    stats,       \* githubmetrics.Run: the GitHubStats value

    dirEntries,    \* migrator: os.ReadDir("migrations"), sorted by name
    migrations,    \* migrator: the MigrationItem list
    history,       \* _migrations_history: the versions, in id order
    historyBefore, \* _migrations_history when the current run started
    lastVersion,   \* migrator: lastVersion ("" is NoVersion)
    fromIdx,       \* migrator: fromIdx (0-based, as in the code)
    migIdx,        \* migrator: i of the apply loop (0-based)
    executed,      \* migrations whose SQL the current run has executed
    appliedSql,    \* database: every migration SQL executed so far, in order
    migRun         \* number of the migrator run

collectorVars ==
    <<distro, PkgInfoMap, depMap, countMap, pageRank, iter, input, pos,
      pkgTable, relTable, inserted, failed, run, snapshot, faults, openConns>>

syncVars ==
    <<packageLinks, gitLinks, normalizedLinks, dbLinks, syncFailed>>

githubVars == <<repoLink, attempts, callErr, stats>>

migratorVars ==
    <<dirEntries, migrations, history, historyBefore, lastVersion, fromIdx,
      migIdx, executed, appliedSql, migRun>>

\* what the collectors never touch
toolVars ==
    <<syncVars, gitMetrics, gitMetricsBefore, githubVars, migratorVars>>

vars == <<pc, done, collectorVars, toolVars>>

Distros == {"centos", "alpine"}

\* Package names that may occur in an index, as keys or as depends tokens.
Names == {"A", "B", "C"}

\* Largest number of depends tokens in one index (over all its packages).
MaxTokens == 3

EmptyMap == [x \in {} |-> 0]

(***************************************************************************)
(* Multi-limb naturals (little endian, base BigBase), for exact PageRank.  *)
(***************************************************************************)
BigBase == 10^6

\* Number of limbs: n * RankScale^20 stays far below BigBase^NLimbs.
NLimbs == 10

RECURSIVE BigOfIntRec(_, _)
BigOfIntRec(k, i) ==
    IF i > NLimbs THEN <<>>
    ELSE <<k % BigBase>> \o BigOfIntRec(k \div BigBase, i + 1)

BigOfInt(k) == BigOfIntRec(k, 1)

BigZero == BigOfInt(0)

RECURSIVE MulRec(_, _, _, _)
MulRec(a, k, i, c) ==
    IF i > NLimbs THEN <<>>
    ELSE LET s == a[i] * k + c
         IN  <<s % BigBase>> \o MulRec(a, k, i + 1, s \div BigBase)

BigMulSmall(a, k) == MulRec(a, k, 1, 0)

RECURSIVE AddRec(_, _, _, _)
AddRec(a, b, i, c) ==
    IF i > NLimbs THEN <<>>
    ELSE LET s == a[i] + b[i] + c
         IN  <<s % BigBase>> \o AddRec(a, b, i + 1, s \div BigBase)

BigAdd(a, b) == AddRec(a, b, 1, 0)

\* acc * d^i, one multiplication at a time
RECURSIVE BigPowLoop(_, _, _)
BigPowLoop(acc, d, i) ==
    IF i = 0 THEN acc
    ELSE LET next == BigMulSmall(acc, d)
         IN  IF Len(next) = NLimbs THEN BigPowLoop(next, d, i - 1) ELSE next

BigPow(d, i) == BigPowLoop(BigOfInt(1), d, i)

\* a <= b, comparing from the most significant limb down
RECURSIVE LeqRec(_, _, _)
LeqRec(a, b, i) ==
    IF i = 0 THEN TRUE
    ELSE IF a[i] < b[i] THEN TRUE
    ELSE IF a[i] > b[i] THEN FALSE
    ELSE LeqRec(a, b, i - 1)

BigLeq(a, b) == LeqRec(a, b, NLimbs)

BigLess(a, b) == BigLeq(a, b) /\ a # b

RECURSIVE BigSum(_, _)
BigSum(f, S) ==
    IF S = {} THEN BigZero
    ELSE LET x == CHOOSE y \in S : TRUE
         IN  BigAdd(f[x], BigSum(f, S \ {x}))

(***************************************************************************)
(* The package index.                                                      *)
(***************************************************************************)
NewPkg(name, depends, description, homepage, version) ==
    [Name |-> name, Depends |-> depends, DependsCount |-> 0,
     Description |-> description, Homepage |-> homepage,
     PageRank |-> BigZero, Version |-> version]

\* the map with keys S and the same value everywhere (make(map) filled by a
\* range loop), built as an explicit table
RECURSIVE ConstMap(_, _)
ConstMap(S, val) ==
    IF S = {} THEN EmptyMap
    ELSE LET x == CHOOSE y \in S : TRUE
         IN  (x :> val) @@ ConstMap(S \ {x}, val)

RECURSIVE SumOver(_, _)
SumOver(f, S) ==
    IF S = {} THEN 0
    ELSE LET x == CHOOSE y \in S : TRUE
         IN  f[x] + SumOver(f, S \ {x})

\* The indexes over one of the key sets Vs with at most MaxTokens depends
\* tokens drawn from Names (a token outside the key set is a dependency on
\* a package that is not in the index).
Indexes(Vs) ==
    UNION { UNION {
      { [p \in KS |->
           NewPkg(p, CASE p = "A" -> da [] p = "B" -> db [] OTHER -> dc,
                  0, "h", "v")] :
          da \in [1..lens["A"] -> Names],
          db \in [1..lens["B"] -> Names],
          dc \in [1..lens["C"] -> Names] } :
        lens \in {l \in [Names -> 0..MaxTokens] :
                    /\ \A p \in Names \ KS : l[p] = 0
                    /\ SumOver(l, Names) <= MaxTokens} } :
      KS \in Vs }

(***************************************************************************)
(* Transitive closure: CentosCollector.getAllDep and                       *)
(* PackageInfo.GetAllDependencies.  `visited` is a Go map, shared by all   *)
(* the calls of one traversal, so the operators return it with `deps`.     *)
(***************************************************************************)
RECURSIVE getAllDepByValue(_, _, _, _)
RECURSIVE depLoopByValue(_, _, _, _, _)
\* getAllDep with `visited` passed by value: what a callee marks is lost
\* when it returns.
getAllDepByValue(M, pkgName, visited, deps) ==
    IF pkgName \in visited THEN [visited |-> visited, deps |-> deps]
    ELSE IF pkgName \in DOMAIN M
         THEN depLoopByValue(M, M[pkgName].Depends, 1,
                             visited \cup {pkgName}, Append(deps, pkgName))
         ELSE [visited |-> visited \cup {pkgName},
               deps |-> Append(deps, pkgName)]

depLoopByValue(M, depends, i, visited, deps) ==
    IF i > Len(depends) THEN [visited |-> visited, deps |-> deps]
    ELSE depLoopByValue(M, depends, i + 1, visited,
                        getAllDepByValue(M, depends[i], visited, deps).deps)

RECURSIVE getAllDep(_, _, _, _)
RECURSIVE depLoop(_, _, _, _, _)
getAllDep(M, pkgName, visited, deps) ==
    IF pkgName \in visited THEN [visited |-> visited, deps |-> deps]
    ELSE IF pkgName \in DOMAIN M
         THEN depLoop(M, M[pkgName].Depends, 1,
                      visited \cup {pkgName}, Append(deps, pkgName))
         ELSE [visited |-> visited \cup {pkgName},
               deps |-> Append(deps, pkgName)]

\* the `for _, depName := range pkg.Depends` loop of getAllDep, from index i
depLoop(M, depends, i, visited, deps) ==
    IF i > Len(depends) THEN [visited |-> visited, deps |-> deps]
    ELSE LET r == getAllDep(M, depends[i], visited, deps)
         IN  depLoop(M, depends, i + 1, r.visited, r.deps)

RECURSIVE GetAllDependenciesByValue(_, _, _, _)
RECURSIVE alpineDepLoopByValue(_, _, _, _, _)
\* GetAllDependencies with `visited` passed by value.
GetAllDependenciesByValue(packages, pkg, visited, deps) ==
    IF pkg.Name \in visited THEN [visited |-> visited, deps |-> deps]
    ELSE alpineDepLoopByValue(packages, pkg.Depends, 1,
                              visited \cup {pkg.Name}, Append(deps, pkg.Name))

alpineDepLoopByValue(packages, depends, i, visited, deps) ==
    IF i > Len(depends) THEN [visited |-> visited, deps |-> deps]
    ELSE IF depends[i] \in DOMAIN packages
         THEN alpineDepLoopByValue(packages, depends, i + 1, visited,
                  GetAllDependenciesByValue(packages, packages[depends[i]],
                                            visited, deps).deps)
         ELSE alpineDepLoopByValue(packages, depends, i + 1, visited, deps)

RECURSIVE GetAllDependencies(_, _, _, _)
RECURSIVE alpineDepLoop(_, _, _, _, _)
GetAllDependencies(packages, pkg, visited, deps) ==
    IF pkg.Name \in visited THEN [visited |-> visited, deps |-> deps]
    ELSE alpineDepLoop(packages, pkg.Depends, 1,
                       visited \cup {pkg.Name}, Append(deps, pkg.Name))

\* the `for _, depName := range pkg.Depends` loop of GetAllDependencies
alpineDepLoop(packages, depends, i, visited, deps) ==
    IF i > Len(depends) THEN [visited |-> visited, deps |-> deps]
    ELSE IF depends[i] \in DOMAIN packages
         THEN LET r == GetAllDependencies(packages, packages[depends[i]],
                                          visited, deps)
              IN  alpineDepLoop(packages, depends, i + 1, r.visited, r.deps)
         ELSE alpineDepLoop(packages, depends, i + 1, visited, deps)

\* closureOf without the start package itself
closureOfNoSelf(M, pkgName) ==
    IF distro = "centos"
    THEN Tail(getAllDep(M, pkgName, {}, <<>>).deps)
    ELSE Tail(GetAllDependencies(M, M[pkgName], {}, <<>>).deps)

\* Collect, first loop body: the closure list of pkgName, started with an
\* empty visited map and an empty list.
closureOf(M, pkgName) ==
    IF distro = "centos"
    THEN getAllDep(M, pkgName, {}, <<>>).deps
    ELSE GetAllDependencies(M, M[pkgName], {}, <<>>).deps

\* Collect, second loop body: countMap[dep]++ for every dep of one list.
RECURSIVE countDeps(_, _, _)
countDeps(cm, deps, i) ==
    IF i > Len(deps) THEN cm
    ELSE countDeps([cm EXCEPT ![deps[i]] = @ + 1], deps, i + 1)

(***************************************************************************)
(* calculatePageRank(20, 0.85), identical in both collectors.              *)
(* After i iterations the rank of v is pageRank[v] / (n * RankScale^i).    *)
(***************************************************************************)
Iterations == 20

\* dampingFactor = 0.85 = DampNum / DampDen
DampNum == 17

DampDen == 20

RECURSIVE Gcd(_, _)
Gcd(a, b) == IF b = 0 THEN a ELSE Gcd(b, a % b)

RECURSIVE LcmUpTo(_)
LcmUpTo(k) ==
    IF k <= 1 THEN 1
    ELSE LET l == LcmUpTo(k - 1) IN (l * k) \div Gcd(l, k)

\* every possible depNum divides RankLcm
RankLcm == LcmUpTo(MaxTokens)

RankScale == DampDen * RankLcm

\* n * RankScale^i: the denominator of the ranks after i iterations
RankDen(n, i) == BigMulSmall(BigPow(RankScale, i), n)

\* depNum, counting every token of the list, in the index or not
depNumAll(M, pkgName) == Len(M[pkgName].Depends)

\* depNum of calculatePageRank: the tokens of the list that are in the index
depNum(M, pkgName) ==
    Cardinality({j \in 1..Len(M[pkgName].Depends) :
                    M[pkgName].Depends[j] \in DOMAIN M})

\* the second inner loop over pkgInfo.Depends, from index j:
\* newPageRank[depName] += dampingFactor * (pageRank[pkgName] / depNum)
RECURSIVE addShares(_, _, _, _, _)
addShares(new, M, pkgName, share, j) ==
    IF j > Len(M[pkgName].Depends) THEN new
    ELSE LET depName == M[pkgName].Depends[j]
         IN  IF depName \in DOMAIN M
             THEN addShares([new EXCEPT ![depName] = BigAdd(@, share)],
                            M, pkgName, share, j + 1)
             ELSE addShares(new, M, pkgName, share, j + 1)

\* the loop `for pkgName, pkgInfo := range cc.PkgInfoMap` of one iteration
RECURSIVE distribute(_, _, _, _)
distribute(new, M, pr, todo) ==
    IF todo = {} THEN new
    ELSE LET pkgName == CHOOSE q \in todo : TRUE
             k == depNum(M, pkgName)
         IN  IF k = 0
             THEN distribute(new, M, pr, todo \ {pkgName})
             ELSE distribute(
                    addShares(new, M, pkgName,
                              BigMulSmall(pr[pkgName],
                                          DampNum * (RankLcm \div k)), 1),
                    M, pr, todo \ {pkgName})

\* pageRank[pkgName] = 1.0 / numPackages
pageRankInit(M) == ConstMap(DOMAIN M, BigOfInt(1))

\* one pass of the loop `for i := 0; i < iterations; i++`, with counter i
pageRankIter(M, pr, i) ==
    distribute(ConstMap(DOMAIN M,
                        BigMulSmall(BigPow(RankScale, i),
                                    (DampDen - DampNum) * RankLcm)),
               M, pr, DOMAIN M)

(***************************************************************************)
(* Spec: the metric stages of Collect, one action per loop pass.           *)
(***************************************************************************)
V == DOMAIN PkgInfoMap

IdleParser == input = <<>> /\ pos = 0

IdleMetrics ==
    /\ done = {} /\ depMap = EmptyMap /\ countMap = [x \in Names |-> 0]
    /\ pageRank = EmptyMap /\ iter = 0

IdleDb ==
    /\ pkgTable = EmptyMap /\ relTable = {} /\ inserted = {}
    /\ failed = {} /\ run = 1 /\ snapshot = <<>> /\ faults = 0
    /\ openConns = 0

IdleSync ==
    /\ packageLinks = EmptyMap /\ gitLinks = {} /\ normalizedLinks = {}
    /\ dbLinks = {} /\ syncFailed = {}

IdleGithub ==
    /\ repoLink = "" /\ attempts = EmptyMap /\ callErr = EmptyMap
    /\ stats = EmptyMap

IdleMigrator ==
    /\ dirEntries = <<>> /\ migrations = <<>> /\ history = <<>>
    /\ historyBefore = <<>> /\ lastVersion = 0 /\ fromIdx = 0
    /\ migIdx = 0 /\ executed = <<>> /\ appliedSql = <<>> /\ migRun = 0

IdleTools ==
    /\ IdleSync /\ IdleGithub /\ IdleMigrator
    /\ gitMetrics = EmptyMap /\ gitMetricsBefore = EmptyMap

Init ==
    /\ distro \in Distros
    /\ PkgInfoMap \in Indexes({{"A"}, {"A", "B"}, {"A", "B", "C"}})
    /\ pc = "closure"
    /\ IdleMetrics /\ IdleParser /\ IdleDb /\ IdleTools

\* for pkgName := range PkgInfoMap { depMap[pkgName] = closure }
ClosureIter(pkgName) ==
    /\ pc = "closure"
    /\ pkgName \in V \ done
    /\ depMap' = [q \in DOMAIN depMap \cup {pkgName} |->
                    IF q = pkgName THEN closureOf(PkgInfoMap, pkgName)
                    ELSE depMap[q]]
    /\ IF done \cup {pkgName} = V
       THEN pc' = "count" /\ done' = {}
       ELSE pc' = pc /\ done' = done \cup {pkgName}
    /\ UNCHANGED <<distro, PkgInfoMap, countMap, pageRank, iter, input, pos,
                   pkgTable, relTable, inserted, failed, run, snapshot,
                   faults>>
    /\ UNCHANGED <<openConns, toolVars>>

\* for _, deps := range depMap { for _, dep := range deps { countMap[dep]++ } }
CountIter(pkgName) ==
    /\ pc = "count"
    /\ pkgName \in DOMAIN depMap \ done
    /\ countMap' = countDeps(countMap, depMap[pkgName], 1)
    /\ IF done \cup {pkgName} = DOMAIN depMap
       THEN pc' = "rank_init" /\ done' = {}
       ELSE pc' = pc /\ done' = done \cup {pkgName}
    /\ UNCHANGED <<distro, PkgInfoMap, depMap, pageRank, iter, input, pos,
                   pkgTable, relTable, inserted, failed, run, snapshot,
                   faults>>
    /\ UNCHANGED <<openConns, toolVars>>

\* calculatePageRank: the initialisation loop
RankInit ==
    /\ pc = "rank_init"
    /\ pageRank' = pageRankInit(PkgInfoMap)
    /\ iter' = 0
    /\ pc' = "rank"
    /\ UNCHANGED <<distro, PkgInfoMap, done, depMap, countMap, input, pos,
                   pkgTable, relTable, inserted, failed, run, snapshot,
                   faults>>
    /\ UNCHANGED <<openConns, toolVars>>

\* calculatePageRank: one iteration; the last one returns to Collect
RankIter ==
    /\ pc = "rank"
    /\ iter < Iterations
    /\ pageRank' = pageRankIter(PkgInfoMap, pageRank, iter)
    /\ iter' = iter + 1
    /\ pc' = IF iter + 1 = Iterations THEN "assign" ELSE pc
    /\ UNCHANGED <<distro, PkgInfoMap, done, depMap, countMap, input, pos,
                   pkgTable, relTable, inserted, failed, run, snapshot,
                   faults>>
    /\ UNCHANGED <<openConns, toolVars>>

\* for pkgName, pkgInfo := range PkgInfoMap { set PageRank and DependsCount }
AssignIter(pkgName) ==
    /\ pc = "assign"
    /\ pkgName \in V \ done
    /\ PkgInfoMap' = [PkgInfoMap EXCEPT
                        ![pkgName].PageRank = pageRank[pkgName],
                        ![pkgName].DependsCount = countMap[pkgName]]
    /\ IF done \cup {pkgName} = V
       THEN pc' = "computed" /\ done' = {}
       ELSE pc' = pc /\ done' = done \cup {pkgName}
    /\ UNCHANGED <<distro, depMap, countMap, pageRank, iter, input, pos,
                   pkgTable, relTable, inserted, failed, run, snapshot,
                   faults>>
    /\ UNCHANGED <<openConns, toolVars>>

Next ==
    \/ \E pkgName \in Names : ClosureIter(pkgName)
    \/ \E pkgName \in Names : CountIter(pkgName)
    \/ RankInit
    \/ RankIter
    \/ \E pkgName \in Names : AssignIter(pkgName)

Spec == Init /\ [][Next]_vars

(***************************************************************************)
(* Properties of the metric stages.                                        *)
(***************************************************************************)
Elems(seq) == {seq[i] : i \in 1..Len(seq)}

NoDuplicates(seq) ==
    \A i, j \in 1..Len(seq) : seq[i] = seq[j] => i = j

\* the packages of the index reachable from the set S along depends tokens
RECURSIVE ReachableFrom(_, _)
ReachableFrom(M, S) ==
    LET S2 == S \cup {d \in DOMAIN M :
                        \E q \in S : d \in Elems(M[q].Depends)}
    IN  IF S2 = S THEN S ELSE ReachableFrom(M, S2)

ExpectedCount(M, v) ==
    Cardinality({q \in DOMAIN M : v \in ReachableFrom(M, {q})})

\* C1: the depends-count Collect assigns to a package v of the index is the
\* number of packages of the index from which v is reachable along
\* dependency edges inside the index, v itself included, each counted once.
C1_DependsCountIsReachCount ==
    pc = "computed" =>
      \A v \in V : PkgInfoMap[v].DependsCount = ExpectedCount(PkgInfoMap, v)

\* a package lists a dependency twice and that dependency got count 2
C1_Witness ==
    /\ pc = "computed"
    /\ \E q \in V : \E i, j \in 1..Len(PkgInfoMap[q].Depends) :
         /\ i # j
         /\ PkgInfoMap[q].Depends[i] = PkgInfoMap[q].Depends[j]
         /\ PkgInfoMap[q].Depends[i] \in V \ {q}
         /\ PkgInfoMap[PkgInfoMap[q].Depends[i]].DependsCount = 2

\* C2: the closure computed for a package contains that package, and the
\* depends-count stored for every package of the index is at least 1.
C2_ClosureHasSelf ==
    /\ \A q \in DOMAIN depMap : q \in Elems(depMap[q])
    /\ pc = "computed" => \A q \in V : PkgInfoMap[q].DependsCount >= 1

\* a package nobody else depends on, in an index of several packages
C2_Witness ==
    /\ pc = "computed"
    /\ Cardinality(V) >= 2
    /\ \E q \in V : PkgInfoMap[q].DependsCount = 1

\* C3: on any graph, cycles and self-dependencies included, the traversal
\* of every start package ends, and its list names every vertex at most once.
C3_ClosureCycleSafe ==
    /\ pc = "closure" => \A q \in V \ done : ENABLED ClosureIter(q)
    /\ \A q \in DOMAIN depMap :
         /\ NoDuplicates(depMap[q])
         /\ Len(depMap[q]) <= Cardinality(Names)

\* closures are computed for a two-package cycle with a self-dependency
C3_Witness ==
    /\ pc = "count"
    /\ \E q, r \in V :
         /\ q # r
         /\ r \in Elems(PkgInfoMap[q].Depends)
         /\ q \in Elems(PkgInfoMap[r].Depends)
         /\ q \in Elems(PkgInfoMap[q].Depends)

Dangling(M, q) == depNum(M, q) = 0

\* C7: after the 20 iterations on a non-empty index the ranks sum to 1 when
\* no package is dangling and to at most 1 otherwise, and every rank lies
\* in (0, 1].
C7_PageRankMass ==
    pc \in {"assign", "computed"} =>
      LET den == RankDen(Cardinality(V), Iterations)
          sum == BigSum(pageRank, V)
      IN  /\ (\A q \in V : ~Dangling(PkgInfoMap, q)) => sum = den
          /\ BigLeq(sum, den)
          /\ \A q \in V : BigLess(BigZero, pageRank[q])
                          /\ BigLeq(pageRank[q], den)

\* the iterations are over on an index without dangling packages in which
\* some token names a package outside the index
C7_Witness ==
    /\ pc = "assign"
    /\ Cardinality(V) >= 2
    /\ \A q \in V : ~Dangling(PkgInfoMap, q)
    /\ \E q \in V : ~(Elems(PkgInfoMap[q].Depends) \subseteq V)

\* The reference power iteration on G = (V, E), E the set of edges.
OutSet(M, q) == Elems(M[q].Depends) \cap DOMAIN M

RECURSIVE refAddShares(_, _, _)
refAddShares(new, targets, share) ==
    IF targets = {} THEN new
    ELSE LET v == CHOOSE x \in targets : TRUE
         IN  refAddShares([new EXCEPT ![v] = BigAdd(@, share)],
                          targets \ {v}, share)

RECURSIVE refDistribute(_, _, _, _)
refDistribute(new, M, pr, todo) ==
    IF todo = {} THEN new
    ELSE LET q == CHOOSE x \in todo : TRUE
             k == Cardinality(OutSet(M, q))
         IN  IF k = 0
             THEN refDistribute(new, M, pr, todo \ {q})
             ELSE refDistribute(
                    refAddShares(new, OutSet(M, q),
                                 BigMulSmall(pr[q],
                                             DampNum * (RankLcm \div k))),
                    M, pr, todo \ {q})

RefIter(M, pr, i) ==
    refDistribute(ConstMap(DOMAIN M,
                           BigMulSmall(BigPow(RankScale, i),
                                       (DampDen - DampNum) * RankLcm)),
                  M, pr, DOMAIN M)

RECURSIVE RefLoop(_, _, _, _)
RefLoop(M, pr, i, iterations) ==
    IF i >= iterations THEN pr
    ELSE LET next == RefIter(M, pr, i)
         IN  IF DOMAIN next = DOMAIN M
             THEN RefLoop(M, next, i + 1, iterations)
             ELSE next

RefPageRank(M, iterations) ==
    RefLoop(M, ConstMap(DOMAIN M, BigOfInt(1)), 0, iterations)

\* C8: calculatePageRank(20, 0.85) equals the reference power iteration on
\* the graph whose edges are the SET of in-index dependencies, so a
\* dependency listed twice weighs the same as one listed once.
C8_PageRankIsReference ==
    pc = "assign" => pageRank = RefPageRank(PkgInfoMap, Iterations)

(***************************************************************************)
(* SpecParse: the index parsers.  CentosCollector.getDependencies walks    *)
(* the <package> elements, AlpineCollector.getPackageList the blank-line   *)
(* separated entries; one action per record.  A description is            *)
(* represented by its length.                                              *)
(***************************************************************************)
\* Largest number of records in a decoded index.
MaxRecords == 2

ParseNames == {"A", "B"}

DescLimit == 255

DescKeep == 254

\* description lengths around the width limit
DescLens == {0, DescKeep, DescLimit, DescLimit + 1, 300}

\* Depends tokens as they stand in the index, one character per element:
\* bare, with a namespace prefix, and with each kind of version constraint.
TokBare == <<"B">>

TokNsEq == <<"l", ":", "B", "=", "1">>

TokNsGe == <<"l", ":", "B", ">", "=", "1">>

TokLe == <<"B", "<", "=", "1">>

TokLt == <<"B", "<", "2">>

TokGt == <<"B", ">", "1">>

\* what a record may carry besides its name and description
Variants ==
    { [Version |-> [Epoch |-> "0", Ver |-> "1.0", Rel |-> "1"],
       Url |-> "http://one", Depends |-> <<>>],
      [Version |-> [Epoch |-> "1", Ver |-> "2.0", Rel |-> "3"],
       Url |-> "http://two", Depends |-> <<TokBare, TokNsEq>>],
      [Version |-> [Epoch |-> "1", Ver |-> "2.1", Rel |-> "1"],
       Url |-> "http://two", Depends |-> <<TokNsGe, TokLe, TokLt, TokGt>>] }

\* A record is one <package> element (CentOS) or one blank-line separated
\* entry (Alpine).  WellFormed = FALSE: the element is not well-formed XML,
\* respectively the entry holds a line that is no "X:" field line.
WellFormedRecords ==
    { [Name |-> n, Version |-> v.Version, Url |-> v.Url,
       Description |-> l, Depends |-> v.Depends, WellFormed |-> TRUE] :
        n \in ParseNames, v \in Variants, l \in DescLens }

\* the records with a broken element or line, and the one without a name
OddRecords ==
    { [Name |-> n, Version |-> [Epoch |-> "0", Ver |-> "1.0", Rel |-> "1"],
       Url |-> "http://one", Description |-> 0, Depends |-> <<TokBare>>,
       WellFormed |-> w] :
        <<n, w>> \in {<<"A", FALSE>>, <<"B", FALSE>>, <<"", TRUE>>} }

RawRecords == WellFormedRecords \cup OddRecords

Put(M, k, val) == [x \in DOMAIN M \cup {k} |-> IF x = k THEN val ELSE M[x]]

\* strings.Index(s, c): the first position of c in s, 0 when there is none
RECURSIVE indexFrom(_, _, _)
indexFrom(s, c, i) ==
    IF i > Len(s) THEN 0
    ELSE IF s[i] = c THEN i
    ELSE indexFrom(s, c, i + 1)

Index(s, c) == indexFrom(s, c, 1)

\* the Go string made of the characters from position i on
RECURSIVE stringFrom(_, _)
stringFrom(chars, i) ==
    IF i > Len(chars) THEN ""
    ELSE chars[i] \o stringFrom(chars, i + 1)

String(chars) == stringFrom(chars, 1)

\* getPackageList, case "D:": dep = dep[idx+1:] after the first ":" and
\* dep = dep[:idx] before the first "="
normalizeDep(dep) ==
    LET afterColon == IF Index(dep, ":") # 0
                      THEN SubSeq(dep, Index(dep, ":") + 1, Len(dep))
                      ELSE dep
    IN  IF Index(afterColon, "=") # 0
        THEN SubSeq(afterColon, 1, Index(afterColon, "=") - 1)
        ELSE afterColon

\* pkg.Depends = append(pkg.Depends, dep) for the tokens from i on
RECURSIVE alpineDepends(_, _)
alpineDepends(tokens, i) ==
    IF i > Len(tokens) THEN <<>>
    ELSE <<String(normalizeDep(tokens[i]))>> \o alpineDepends(tokens, i + 1)

\* parsePackageXML, case "entry": depends = append(depends, entry.Name)
RECURSIVE centosDepends(_, _)
centosDepends(tokens, i) ==
    IF i > Len(tokens) THEN <<>>
    ELSE <<String(tokens[i])>> \o centosDepends(tokens, i + 1)

\* parsePackageXML: if len(description) > 255 { description = description[:254] }
truncateDescription(description) ==
    IF description > DescLimit THEN DescKeep ELSE description

\* parsePackageXML: fmt.Sprintf("%s:%s-%s", version.Epoch, version.Ver, version.Rel)
formatVersion(version) ==
    <<version.Epoch, ":", version.Ver, "-", version.Rel>>

parsePackageXML(rec) ==
    NewPkg(rec.Name, centosDepends(rec.Depends, 1),
           truncateDescription(rec.Description),
           rec.Url, formatVersion(rec.Version))

\* getDependencies: decoder.DecodeElement / parsePackageXML return an error
\* on an element that is not well-formed, and getDependencies returns it
centosParseError(rec) == ~rec.WellFormed

\* getDependencies: if _, exists := cc.PkgInfoMap[pkgInfo.Name]; !exists {...}
centosStore(M, pkgInfo) ==
    IF pkgInfo.Name \in DOMAIN M THEN M ELSE Put(M, pkgInfo.Name, pkgInfo)

\* getPackageList: the P:, V:, D:, T: and U: lines of one entry; any other
\* line is passed over
parseEntry(rec) ==
    NewPkg(rec.Name, alpineDepends(rec.Depends, 1), rec.Description, rec.Url,
           rec.Version.Ver)

\* getPackageList: if pkg.PackageName != "" { packageList[pkg.PackageName] = pkg }
alpineStore(M, pkg) ==
    IF pkg.Name # "" THEN Put(M, pkg.Name, pkg) ELSE M

\* the record conversion and the store of the running collector
parseRecord(rec) ==
    IF distro = "centos" THEN parsePackageXML(rec) ELSE parseEntry(rec)

\* whether the record makes the parser return an error (getPackageList has
\* no error return inside its entry loop)
parseError(rec) ==
    IF distro = "centos" THEN centosParseError(rec) ELSE FALSE

storeRecord(M, rec) ==
    IF distro = "centos" THEN centosStore(M, parsePackageXML(rec))
    ELSE alpineStore(M, parseEntry(rec))

InitParse ==
    /\ distro \in Distros
    /\ input \in UNION {[1..n -> RawRecords] : n \in 0..MaxRecords}
    /\ pos = 0
    /\ PkgInfoMap = EmptyMap
    /\ pc = "decode"
    /\ IdleMetrics /\ IdleDb /\ IdleTools

\* http.Get, ReadAll and decompressGzip: on an error the process ends
\* (log.Fatal, in Collect or in getPackageList itself)
Decode(ok) ==
    /\ pc = "decode"
    /\ pc' = IF ok THEN "parse" ELSE "fatal"
    /\ UNCHANGED <<distro, PkgInfoMap, done, depMap, countMap, pageRank, iter,
                   input, pos, pkgTable, relTable, inserted, failed, run,
                   snapshot, faults>>
    /\ UNCHANGED <<openConns, toolVars>>

\* one <package type="rpm"> element / one APKINDEX entry; a parse error is
\* returned to Collect, which ends the process with log.Fatal
ParseRecord ==
    /\ pc = "parse"
    /\ pos < Len(input)
    /\ pos' = pos + 1
    /\ IF parseError(input[pos + 1])
       THEN pc' = "fatal" /\ PkgInfoMap' = PkgInfoMap
       ELSE pc' = pc /\ PkgInfoMap' = storeRecord(PkgInfoMap, input[pos + 1])
    /\ UNCHANGED <<distro, done, depMap, countMap, pageRank, iter, input,
                   pkgTable, relTable, inserted, failed, run, snapshot,
                   faults>>
    /\ UNCHANGED <<openConns, toolVars>>

\* the end of the index: the parser returns the package map
ParseEof ==
    /\ pc = "parse"
    /\ pos = Len(input)
    /\ pc' = "parsed"
    /\ UNCHANGED <<distro, PkgInfoMap, done, depMap, countMap, pageRank, iter,
                   input, pos, pkgTable, relTable, inserted, failed, run,
                   snapshot, faults>>
    /\ UNCHANGED <<openConns, toolVars>>

NextParse ==
    \/ \E ok \in BOOLEAN : Decode(ok)
    \/ ParseRecord
    \/ ParseEof

SpecParse == InitParse /\ [][NextParse]_vars

\* the first record of the index with the given name
FirstRecord(name) ==
    input[CHOOSE i \in 1..Len(input) :
            /\ input[i].Name = name
            /\ \A j \in 1..(i - 1) : input[j].Name # name]

\* C9: when several records carry the same package name, the index keeps
\* the first one in input order (version, description, homepage and
\* depends), in the CentOS and in the Alpine parser.
C9_FirstRecordWins ==
    pc = "parsed" =>
      \A name \in DOMAIN PkgInfoMap :
        LET first == parseRecord(FirstRecord(name))
            kept == PkgInfoMap[name]
        IN  /\ kept.Version = first.Version
            /\ kept.Description = first.Description
            /\ kept.Homepage = first.Homepage
            /\ kept.Depends = first.Depends

\* C10: the description handed to the package upsert has at most 255
\* characters in both pipelines, and a longer one is cut to 254.
C10_DescriptionWidth ==
    pc = "parsed" =>
      \A name \in DOMAIN PkgInfoMap :
        /\ PkgInfoMap[name].Description <= DescLimit
        /\ \E i \in 1..Len(input) :
             /\ input[i].Name = name
             /\ PkgInfoMap[name].Description =
                  IF input[i].Description > DescLimit THEN DescKeep
                  ELSE input[i].Description

\* the bare package name of a token: what follows the namespace prefix, up
\* to the first of =, < and >
RECURSIVE bareUpTo(_, _)
bareUpTo(s, i) ==
    IF i > Len(s) \/ s[i] \in {"=", "<", ">"} THEN <<>>
    ELSE <<s[i]>> \o bareUpTo(s, i + 1)

BareName(tok) ==
    String(bareUpTo(IF Index(tok, ":") # 0
                    THEN SubSeq(tok, Index(tok, ":") + 1, Len(tok))
                    ELSE tok, 1))

RECURSIVE BareNames(_, _)
BareNames(tokens, i) ==
    IF i > Len(tokens) THEN <<>>
    ELSE <<BareName(tokens[i])>> \o BareNames(tokens, i + 1)

\* C11: the depends entries of every package of the index are the bare
\* package names of its record's tokens: the namespace prefix and a
\* version constraint introduced by =, <, >, >= or <= are both gone.
C11_TokensAreBareNames ==
    \A name \in DOMAIN PkgInfoMap :
      \E i \in 1..pos :
        /\ input[i].Name = name
        /\ PkgInfoMap[name].Depends = BareNames(input[i].Depends, 1)

\* C16: a record that is not well-formed does not end the run, which ends
\* early only when the download or the decoding of the whole index failed;
\* at the end of the index every well-formed record with a name has its
\* package in the index; and no package has the empty name.
C16_MalformedRecordSkipped ==
    /\ pc = "fatal" => pos = 0
    /\ pc = "parsed" =>
         \A i \in 1..Len(input) :
           input[i].WellFormed /\ input[i].Name # "" =>
             input[i].Name \in DOMAIN PkgInfoMap
    /\ "" \notin DOMAIN PkgInfoMap

(***************************************************************************)
(* SpecPersist and SpecRerun: Collect as a whole against the tables        *)
(* <distro>_packages and <distro>_relationships.  SpecPersist is one run   *)
(* in which database calls may fail; SpecRerun is two consecutive runs on  *)
(* the same index without such failures.  Both start from tables that      *)
(* already hold rows.                                                      *)
(***************************************************************************)
\* Largest number of database calls that fail with a non-unique error.
MaxFaults == 1

UniqueViolation == "23505"

OtherError == "other"

ConnectFailure == "<connect>"

UpsertFailure == "<upsert>"

PersistKeySets == {{"A"}, {"A", "B"}}

StaleRow ==
    [depends_count |-> 7, description |-> 1, homepage |-> "old",
     page_rank |-> BigZero, version |-> "old"]

\* contents of the tables before the first run
PkgSeeds == {EmptyMap, [x \in {"A"} |-> StaleRow]}

RelSeeds == {{}, {<<"A", "B">>}}

\* the depends tokens of the index file that name the packages of names
RECURSIVE tokensOf(_, _)
tokensOf(names, i) ==
    IF i > Len(names) THEN <<>>
    ELSE <<<<names[i]>>>> \o tokensOf(names, i + 1)

\* the decoded index that holds the packages of idx, one record each
RECURSIVE RecordsOf(_, _)
RecordsOf(idx, todo) ==
    IF todo = {} THEN <<>>
    ELSE LET n == CHOOSE x \in todo : TRUE
         IN  <<[Name |-> n,
                Version |-> [Epoch |-> "0", Ver |-> "1.0", Rel |-> "1"],
                Url |-> "http://one", Description |-> DescLimit + 1,
                Depends |-> tokensOf(idx[n].Depends, 1), WellFormed |-> TRUE]>>
             \o RecordsOf(idx, todo \ {n})

\* the record loop of getDependencies / getPackageList, from record i
RECURSIVE parseAll(_, _, _)
parseAll(M, records, i) ==
    IF i > Len(records) THEN M
    ELSE parseAll(storeRecord(M, records[i]), records, i + 1)

\* the values of the INSERT / UPDATE of updateOrInsertDatabase
rowOf(pkgInfo) ==
    [depends_count |-> pkgInfo.DependsCount,
     description |-> pkgInfo.Description,
     homepage |-> pkgInfo.Homepage,
     page_rank |-> pkgInfo.PageRank,
     version |-> pkgInfo.Version]

\* INSERT INTO <distro>_packages: `package` is the primary key
dbInsertPackage(tbl, pkgName, row) ==
    IF pkgName \in DOMAIN tbl THEN [tbl |-> tbl, err |-> UniqueViolation]
    ELSE [tbl |-> Put(tbl, pkgName, row), err |-> ""]

\* INSERT INTO <distro>_relationships: UNIQUE(frompackage, topackage)
dbInsertEdge(rel, edge) ==
    IF edge \in rel THEN [rel |-> rel, err |-> UniqueViolation]
    ELSE [rel |-> rel \cup {edge}, err |-> ""]

\* the loop body without the SELECT EXISTS: always INSERT
upsertAlwaysInsert(tbl, pkgName, pkgInfo) ==
    dbInsertPackage(tbl, pkgName, rowOf(pkgInfo))

\* updateOrInsertDatabase, loop body: SELECT EXISTS, then INSERT or UPDATE
upsert(tbl, pkgName, pkgInfo) ==
    IF pkgName \in DOMAIN tbl
    THEN [tbl |-> [tbl EXCEPT ![pkgName] = rowOf(pkgInfo)], err |-> ""]
    ELSE dbInsertPackage(tbl, pkgName, rowOf(pkgInfo))

\* storeDependenciesInDatabase from dependency i on; the insert number
\* faultAt fails with a non-unique error (0: none does).  The first error
\* of any kind is returned and ends the loop.
RECURSIVE storeDependencies(_, _, _, _, _, _)
storeDependencies(rel, new, pkgName, dependencies, i, faultAt) ==
    IF i > Len(dependencies) THEN [rel |-> rel, new |-> new, err |-> ""]
    ELSE IF i = faultAt THEN [rel |-> rel, new |-> new, err |-> OtherError]
    ELSE LET r == dbInsertEdge(rel, <<pkgName, dependencies[i]>>)
         IN  IF r.err # "" THEN [rel |-> rel, new |-> new, err |-> r.err]
             ELSE storeDependencies(r.rel,
                                    new \cup {<<pkgName, dependencies[i]>>},
                                    pkgName, dependencies, i + 1, faultAt)

isUniqueViolation(err) == err = UniqueViolation

InitPersist ==
    /\ distro \in Distros
    /\ \E idx \in Indexes(PersistKeySets) : input = RecordsOf(idx, DOMAIN idx)
    /\ pos = 0
    /\ PkgInfoMap = EmptyMap
    /\ pc = "fetch"
    /\ IdleMetrics
    /\ pkgTable \in PkgSeeds
    /\ relTable \in RelSeeds
    /\ inserted = {} /\ failed = {}
    /\ run = 1 /\ snapshot = <<>> /\ faults = 0
    /\ openConns = 0
    /\ IdleTools

\* whether the record loop returns an error before the end of the index
parseFails(records) == \E i \in 1..Len(records) : parseError(records[i])

\* getDependencies / getPackageList as a whole: a failed download or gzip
\* decoding ends the process (log.Fatal), otherwise the index is parsed
FetchParse(ok) ==
    /\ pc = "fetch"
    /\ IF ok /\ ~parseFails(input)
       THEN /\ PkgInfoMap' = parseAll(EmptyMap, input, 1)
            /\ pos' = Len(input)
            /\ pc' = "closure"
       ELSE /\ pc' = "fatal"
            /\ UNCHANGED <<PkgInfoMap, pos>>
    /\ UNCHANGED <<distro, done, depMap, countMap, pageRank, iter, input,
                   pkgTable, relTable, inserted, failed, run, snapshot,
                   faults>>
    /\ UNCHANGED <<openConns, toolVars>>

\* storage.GetDatabaseConnection: a new open connection, or an error and
\* no connection
GetDatabaseConnection(n, ok) == IF ok THEN n + 1 ELSE n

\* db.Close() reached on the success path only
closeOnSuccess(n, err) == IF err = "" THEN n - 1 ELSE n

\* defer db.Close(): runs when the function returns, whatever it returns
deferClose(n, err) == n - 1

\* updateOrInsertDatabase: GetDatabaseConnection; on error Collect prints
\* "Error updating database" and returns
UpsertOpen(ok) ==
    /\ pc = "computed"
    /\ IF ok
       THEN pc' = "upsert" /\ faults' = faults
       ELSE faults < MaxFaults /\ pc' = "returned" /\ faults' = faults + 1
    /\ openConns' = GetDatabaseConnection(openConns, ok)
    /\ done' = {}
    /\ UNCHANGED <<distro, PkgInfoMap, depMap, countMap, pageRank, iter,
                   input, pos, pkgTable, relTable, inserted, failed, run,
                   snapshot>>
    /\ UNCHANGED toolVars

\* UpsertIter in a Collect that does not look at the error the package
\* pass returns: after a failed package the edge loop starts
UpsertIterErrorIgnored(pkgName, ok) ==
    /\ pc = "upsert"
    /\ pkgName \in V \ done
    /\ IF ok
       THEN LET r == upsert(pkgTable, pkgName, PkgInfoMap[pkgName])
            IN  /\ pkgTable' = r.tbl
                /\ faults' = faults
                /\ failed' = failed
                /\ IF r.err # "" \/ done \cup {pkgName} = V
                   THEN /\ pc' = "edges" /\ done' = {}
                        /\ openConns' = deferClose(openConns, r.err)
                   ELSE /\ pc' = pc /\ done' = done \cup {pkgName}
                        /\ openConns' = openConns
       ELSE /\ faults < MaxFaults
            /\ faults' = faults + 1
            /\ pc' = "edges" /\ done' = {}
            /\ pkgTable' = pkgTable
            /\ failed' = failed \cup {<<pkgName, UpsertFailure>>}
            /\ openConns' = deferClose(openConns, OtherError)
    /\ UNCHANGED <<distro, PkgInfoMap, depMap, countMap, pageRank, iter,
                   input, pos, relTable, inserted, run, snapshot>>
    /\ UNCHANGED toolVars

\* updateOrInsertDatabase: one pass of `for pkgName, pkgInfo := range`;
\* any error is returned to Collect, which prints it and returns
UpsertIter(pkgName, ok) ==
    /\ pc = "upsert"
    /\ pkgName \in V \ done
    /\ IF ok
       THEN LET r == upsert(pkgTable, pkgName, PkgInfoMap[pkgName])
            IN  /\ pkgTable' = r.tbl
                /\ faults' = faults
                /\ IF r.err # ""
                   THEN /\ pc' = "returned" /\ done' = {}
                        /\ failed' = failed \cup {<<pkgName, UpsertFailure>>}
                        /\ openConns' = deferClose(openConns, r.err)
                   ELSE /\ failed' = failed
                        /\ IF done \cup {pkgName} = V
                           THEN /\ pc' = "edges" /\ done' = {}
                                /\ openConns' = deferClose(openConns, "")
                           ELSE /\ pc' = pc /\ done' = done \cup {pkgName}
                                /\ openConns' = openConns
       ELSE /\ faults < MaxFaults
            /\ faults' = faults + 1
            /\ pc' = "returned" /\ done' = {}
            /\ pkgTable' = pkgTable
            /\ failed' = failed \cup {<<pkgName, UpsertFailure>>}
            /\ openConns' = deferClose(openConns, OtherError)
    /\ UNCHANGED <<distro, PkgInfoMap, depMap, countMap, pageRank, iter,
                   input, pos, relTable, inserted, run, snapshot>>
    /\ UNCHANGED toolVars

\* Collect: one pass of the loop that calls storeDependenciesInDatabase.
\* faultAt = -1: the call cannot connect; faultAt = k > 0: its k-th insert
\* fails with a non-unique error.  Collect goes on to the next package
\* whatever the call returns.
StoreDeps(pkgName, faultAt) ==
    /\ pc = "edges"
    /\ pkgName \in V \ done
    /\ faultAt \in {-1, 0} \cup 1..Len(PkgInfoMap[pkgName].Depends)
    /\ IF faultAt = 0 THEN faults' = faults
       ELSE faults < MaxFaults /\ faults' = faults + 1
    /\ IF faultAt = -1
       THEN /\ failed' = failed \cup {<<pkgName, ConnectFailure>>}
            /\ openConns' = GetDatabaseConnection(openConns, FALSE)
            /\ UNCHANGED <<relTable, inserted>>
       ELSE LET r == storeDependencies(relTable, {}, pkgName,
                                       PkgInfoMap[pkgName].Depends, 1,
                                       faultAt)
            IN  /\ relTable' = r.rel
                /\ inserted' = inserted \cup r.new
                /\ openConns' =
                     deferClose(GetDatabaseConnection(openConns, TRUE), r.err)
                /\ failed' =
                     IF r.err = "" \/ isUniqueViolation(r.err) THEN failed
                     ELSE failed \cup
                            {<<pkgName, PkgInfoMap[pkgName].Depends[faultAt]>>}
    /\ IF done \cup {pkgName} = V
       THEN pc' = "done" /\ done' = {}
       ELSE pc' = pc /\ done' = done \cup {pkgName}
    /\ UNCHANGED <<distro, PkgInfoMap, depMap, countMap, pageRank, iter,
                   input, pos, pkgTable, run, snapshot>>
    /\ UNCHANGED toolVars

\* Collect is called again (the same index is served again)
Rerun ==
    /\ pc \in {"done", "returned"}
    /\ run = 1
    /\ run' = 2
    /\ snapshot' = [pkg |-> pkgTable, rel |-> relTable]
    /\ pc' = "fetch"
    /\ PkgInfoMap' = EmptyMap
    /\ pos' = 0
    /\ done' = {} /\ depMap' = EmptyMap /\ countMap' = [x \in Names |-> 0]
    /\ pageRank' = EmptyMap /\ iter' = 0
    /\ UNCHANGED <<distro, input, pkgTable, relTable, inserted, failed,
                   faults>>
    /\ UNCHANGED <<openConns, toolVars>>

NextPersist ==
    \/ \E ok \in BOOLEAN : FetchParse(ok)
    \/ \E pkgName \in Names : ClosureIter(pkgName)
    \/ \E pkgName \in Names : CountIter(pkgName)
    \/ RankInit
    \/ RankIter
    \/ \E pkgName \in Names : AssignIter(pkgName)
    \/ \E ok \in BOOLEAN : UpsertOpen(ok)
    \/ \E pkgName \in Names, ok \in BOOLEAN : UpsertIter(pkgName, ok)
    \/ \E pkgName \in Names, faultAt \in -1..MaxTokens :
         StoreDeps(pkgName, faultAt)

SpecPersist == InitPersist /\ [][NextPersist]_vars

NextRerun ==
    \/ FetchParse(TRUE)
    \/ \E pkgName \in Names : ClosureIter(pkgName)
    \/ \E pkgName \in Names : CountIter(pkgName)
    \/ RankInit
    \/ RankIter
    \/ \E pkgName \in Names : AssignIter(pkgName)
    \/ UpsertOpen(TRUE)
    \/ \E pkgName \in Names : UpsertIter(pkgName, TRUE)
    \/ \E pkgName \in Names : StoreDeps(pkgName, 0)
    \/ Rerun

SpecRerun == InitPersist /\ [][NextRerun]_vars

\* C4: the persistence pass inserts no edge whose depends token is not a
\* package of the index: both endpoints of every inserted row are in V.
C4_NoEdgeOutsideIndex ==
    pc \in {"edges", "done"} =>
      \A edge \in inserted : edge[1] \in V /\ edge[2] \in V

\* C5: after the edge pass, every edge of the index whose own insert did
\* not fail with a non-unique error is stored, also the edges that follow
\* a duplicate or colliding edge in the same depends list.
C5_EdgesAfterCollisionStored ==
    pc = "done" =>
      \A q \in V :
        <<q, ConnectFailure>> \notin failed =>
          \A i \in 1..Len(PkgInfoMap[q].Depends) :
            <<q, PkgInfoMap[q].Depends[i]>> \notin failed =>
              <<q, PkgInfoMap[q].Depends[i]>> \in relTable

C17_UpsertErrorSkipsOneItem ==
    /\ (\E q \in V : <<q, UpsertFailure>> \in failed) => pc # "returned"
    /\ pc = "done" =>
         \A q \in V :
           <<q, UpsertFailure>> \notin failed =>
             q \in DOMAIN pkgTable /\ pkgTable[q] = rowOf(PkgInfoMap[q])

\* both metrics are computed and assigned for every package of the index
MetricsComputed ==
    /\ pos = Len(input)
    /\ DOMAIN depMap = V
    /\ iter = Iterations
    /\ \A q \in V : /\ PkgInfoMap[q].DependsCount = countMap[q]
                    /\ PkgInfoMap[q].PageRank = pageRank[q]

\* the package-upsert pass has written the row of every package
UpsertComplete ==
    \A q \in V : q \in DOMAIN pkgTable /\ pkgTable[q] = rowOf(PkgInfoMap[q])

\* C19: the stages of one run are in order.  A step writes a package row
\* only when the index is parsed and both metrics are computed for every
\* package, a step writes an edge row only when the package pass has
\* written every package, and a run that ends on a fetch or decode failure
\* has written nothing.
C19_StagesInOrder ==
    /\ [](pc = "fatal" =>
            inserted = {} /\ pkgTable \in PkgSeeds /\ relTable \in RelSeeds)
    /\ [][/\ pkgTable' # pkgTable => MetricsComputed
          /\ relTable' # relTable => MetricsComputed /\ UpsertComplete
          /\ pc' = "fatal" => pc = "fetch"]_vars

\* a run without failures wrote package rows and edge rows
C19_Witness ==
    /\ pc = "done" /\ faults = 0
    /\ inserted # {}
    /\ Cardinality(V) = 2
    /\ UpsertComplete

\* C20: the connection a persistence call opens is closed when the call
\* returns, with or without an error: the collector never holds two
\* connections, and holds one only inside the package-upsert pass.
C20_ConnectionsReleased ==
    /\ openConns <= 1
    /\ pc # "upsert" => openConns = 0

\* Collect is over; one edge call returned an error after another call, or
\* the same one, had inserted edges
C20_Witness ==
    /\ pc = "done"
    /\ \E e \in failed : e[2] \notin {ConnectFailure, UpsertFailure}
    /\ inserted # {}
    /\ openConns = 0

(***************************************************************************)
(* SpecSync: gitmetricsync.Run, that is fetchGitLinks followed by          *)
(* syncGitMetrics.  A link is the sequence of the pieces that "/"          *)
(* separates in it: https://github.com/O/R is                              *)
(* <<"https:", "", "github.com", "O", "R">>.                               *)
(***************************************************************************)
\* Largest number of git_link values in the package tables.
MaxLinks == 2

NullLink == <<>>

SyncTables == <<"debian_packages", "arch_packages">>

\* git_link values a package row may carry
RawLinks ==
    { <<"https:", "", "github.com", "O", "R">>,
      <<"https:", "", "github.com", "O", "R.git">>,
      <<"http:", "", "github.com", "O", "R">>,
      <<"http:", "", "github.com", "O", "R.git">>,
      <<"https:", "", "github.com", "O", "R", "tree", "main">>,
      <<"https:", "", "github.com", "O">>,
      <<"https:", "", "gitlab.com", "O", "R">> }

NullMetric == "NULL"

\* a git_metrics row written before the operation started
OldMetrics ==
    [depsdev_count |-> 9, star_count |-> 7, fork_count |-> 6,
     created_since |-> "t0", updated_since |-> "t0",
     contributor_count |-> 5, commit_frequency |-> 4]

\* contents of git_metrics before the operation
MetricSeeds ==
    { EmptyMap,
      (<<"https:", "", "github.com", "O", "R">> :> OldMetrics),
      (<<"https:", "", "github.com", "O", "R.git">> :> OldMetrics)
        @@ (<<"https:", "", "github.com", "O", "X">> :> OldMetrics),
      (<<"https:", "", "github.com", "O", "R">> :> OldMetrics)
        @@ (<<"https:", "", "github.com", "O", "X">> :> OldMetrics) }

\* what queryDepsDev may return: 0 on any failure, else the dependent count
DepCounts == {0, 12}

\* regexp `https?://github\.com/[^\s/]+/[^\s/]+`, matched against the link
githubRegexMatch(link) ==
    /\ Len(link) >= 5
    /\ link[1] \in {"https:", "http:"}
    /\ link[2] = ""
    /\ link[3] = "github.com"
    /\ link[4] # "" /\ link[5] # ""

\* "https://github.com/" + matches[1], matches[1] being owner/repo as the
\* regexp `https?://github\.com/([^/\s]+/[^/\s]+)` captures them
normalizedLink(link) == <<"https:", "", "github.com", link[4], link[5]>>

\* fetchGitLinks, loop body: gitLink.Valid && githubRegex.MatchString(...)
keptLinks(column) ==
    {link \in column : link # NullLink /\ githubRegexMatch(link)}

\* syncGitMetrics, first loop
normalizeLinks(links) ==
    {normalizedLink(link) : link \in {l \in links : githubRegexMatch(l)}}

\* the table without the row of link (DELETE ... WHERE git_link = $1)
deleteRow(tbl, link) == [l \in DOMAIN tbl \ {link} |-> tbl[l]]

\* INSERT INTO git_metrics (git_link, depsdev_count) VALUES ($1, $2)
newMetricsRow(depCount) ==
    [depsdev_count |-> depCount, star_count |-> NullMetric,
     fork_count |-> NullMetric, created_since |-> NullMetric,
     updated_since |-> NullMetric, contributor_count |-> NullMetric,
     commit_frequency |-> NullMetric]

IdleCollector ==
    /\ distro = "" /\ PkgInfoMap = EmptyMap
    /\ IdleMetrics /\ IdleParser /\ IdleDb

InitSync ==
    /\ packageLinks \in
         {f \in [{SyncTables[1], SyncTables[2]} ->
                   SUBSET (RawLinks \cup {NullLink})] :
            Cardinality(f[SyncTables[1]]) + Cardinality(f[SyncTables[2]])
              <= MaxLinks}
    /\ gitMetrics \in MetricSeeds
    /\ gitMetricsBefore = gitMetrics
    /\ gitLinks = {} /\ normalizedLinks = {} /\ dbLinks = {}
    /\ syncFailed = {}
    /\ pc = "fetch_links"
    /\ IdleCollector /\ IdleGithub /\ IdleMigrator

\* fetchGitLinks: one pass of `for _, table := range tables`; a failing
\* query ends the process (log.Fatal)
FetchTable(ok) ==
    /\ pc = "fetch_links"
    /\ LET table == SyncTables[Cardinality(done) + 1]
       IN  IF ok
           THEN /\ gitLinks' = gitLinks \cup keptLinks(packageLinks[table])
                /\ IF Cardinality(done) + 1 = Len(SyncTables)
                   THEN pc' = "normalize" /\ done' = {}
                   ELSE pc' = pc /\ done' = done \cup {table}
           ELSE /\ pc' = "fatal"
                /\ UNCHANGED <<gitLinks, done>>
    /\ UNCHANGED <<packageLinks, normalizedLinks, dbLinks, gitMetrics,
                   gitMetricsBefore, syncFailed>>
    /\ UNCHANGED <<collectorVars, githubVars, migratorVars>>

\* syncGitMetrics: the loop that fills normalizedLinks
NormalizeLinks ==
    /\ pc = "normalize"
    /\ normalizedLinks' = normalizeLinks(gitLinks)
    /\ pc' = "read_db"
    /\ UNCHANGED <<packageLinks, gitLinks, dbLinks, gitMetrics,
                   gitMetricsBefore, syncFailed, done>>
    /\ UNCHANGED <<collectorVars, githubVars, migratorVars>>

\* syncGitMetrics: SELECT git_link FROM git_metrics into dbLinks; a failing
\* query or scan ends the process (log.Fatalf)
ReadDbLinks(ok) ==
    /\ pc = "read_db"
    /\ IF ok
       THEN dbLinks' = DOMAIN gitMetrics /\ pc' = "delete"
       ELSE dbLinks' = dbLinks /\ pc' = "fatal"
    /\ UNCHANGED <<packageLinks, gitLinks, normalizedLinks, gitMetrics,
                   gitMetricsBefore, syncFailed, done>>
    /\ UNCHANGED <<collectorVars, githubVars, migratorVars>>

\* syncGitMetrics: one pass of `for link := range dbLinks`; a failing
\* DELETE is logged
DeleteIter(link, ok) ==
    /\ pc = "delete"
    /\ link \in dbLinks \ done
    /\ done' = done \cup {link}
    /\ IF link \notin normalizedLinks
       THEN IF ok
            THEN gitMetrics' = deleteRow(gitMetrics, link)
                 /\ syncFailed' = syncFailed
            ELSE /\ Cardinality(syncFailed) < MaxFaults
                 /\ syncFailed' = syncFailed \cup {link}
                 /\ gitMetrics' = gitMetrics
       ELSE ok /\ UNCHANGED <<gitMetrics, syncFailed>>
    /\ UNCHANGED <<pc, packageLinks, gitLinks, normalizedLinks, dbLinks,
                   gitMetricsBefore>>
    /\ UNCHANGED <<collectorVars, githubVars, migratorVars>>

\* the delete loop has visited every key of dbLinks
DeleteEnd ==
    /\ pc = "delete"
    /\ done = dbLinks
    /\ pc' = "insert"
    /\ done' = {}
    /\ UNCHANGED <<syncVars, gitMetrics, gitMetricsBefore, collectorVars,
                   githubVars, migratorVars>>

\* syncGitMetrics: one pass of `for link := range normalizedLinks`; a
\* failing INSERT is logged
InsertIter(link, depCount, ok) ==
    /\ pc = "insert"
    /\ link \in normalizedLinks \ done
    /\ done' = done \cup {link}
    /\ IF link \notin dbLinks /\ Len(link) >= 5
       THEN IF ok
            THEN gitMetrics' = Put(gitMetrics, link, newMetricsRow(depCount))
                 /\ syncFailed' = syncFailed
            ELSE /\ Cardinality(syncFailed) < MaxFaults
                 /\ depCount = 0
                 /\ syncFailed' = syncFailed \cup {link}
                 /\ gitMetrics' = gitMetrics
       ELSE ok /\ depCount = 0 /\ UNCHANGED <<gitMetrics, syncFailed>>
    /\ UNCHANGED <<pc, packageLinks, gitLinks, normalizedLinks, dbLinks,
                   gitMetricsBefore>>
    /\ UNCHANGED <<collectorVars, githubVars, migratorVars>>

\* the insert loop has visited every key of normalizedLinks
InsertEnd ==
    /\ pc = "insert"
    /\ done = normalizedLinks
    /\ pc' = "synced"
    /\ done' = {}
    /\ UNCHANGED <<syncVars, gitMetrics, gitMetricsBefore, collectorVars,
                   githubVars, migratorVars>>

NextSync ==
    \/ \E ok \in BOOLEAN : FetchTable(ok)
    \/ NormalizeLinks
    \/ \E ok \in BOOLEAN : ReadDbLinks(ok)
    \/ \E link \in dbLinks, ok \in BOOLEAN : DeleteIter(link, ok)
    \/ DeleteEnd
    \/ \E link \in normalizedLinks, depCount \in DepCounts, ok \in BOOLEAN :
         InsertIter(link, depCount, ok)
    \/ InsertEnd

SpecSync == InitSync /\ [][NextSync]_vars

\* the repository name without a trailing ".git"
TrimGit(repo) == IF repo = "R.git" THEN "R" ELSE repo

\* the canonical link of a GitHub link: https://github.com/{owner}/{repo}
\* with no trailing .git
CanonicalLink(link) ==
    <<"https:", "", "github.com", link[4], TrimGit(link[5])>>

\* the canonical links of the GitHub links in the package tables
CanonicalLinks ==
    {CanonicalLink(link) :
       link \in {l \in packageLinks[SyncTables[1]]
                         \cup packageLinks[SyncTables[2]] :
                   l # NullLink /\ githubRegexMatch(l)}}

\* C12: the synchronization gives the .git spelling and the plain spelling
\* of a repository (https or http) one and the same canonical link, so
\* afterwards git_metrics holds one row for it and no git_link that ends
\* in .git.
C12_GitSuffixCollapsed ==
    /\ \A link \in normalizedLinks : link[5] = TrimGit(link[5])
    /\ pc = "synced" /\ syncFailed = {} =>
         \A l1, l2 \in DOMAIN gitMetrics :
           /\ l1[5] = TrimGit(l1[5])
           /\ CanonicalLink(l1) = CanonicalLink(l2) => l1 = l2

\* C13: when syncGitMetrics is over and no DELETE or INSERT failed, the
\* git_link values of git_metrics are exactly the canonical links of the
\* package tables, and a row that was there before and still is has all
\* its columns as before.
C13_SyncMatchesPackageLinks ==
    pc = "synced" /\ syncFailed = {} =>
      /\ DOMAIN gitMetrics = CanonicalLinks
      /\ \A link \in DOMAIN gitMetrics \cap DOMAIN gitMetricsBefore :
           gitMetrics[link] = gitMetricsBefore[link]

(***************************************************************************)
(* SpecGithub: the GitHub calls of the enrichment.  githubmetrics.Run      *)
(* issues Repositories.Get, ListContributors and ListCommits and then      *)
(* updates the git_metrics row; getProjectType issues GetContents.         *)
(***************************************************************************)
\* Largest number of requests getProjectType issues for one repository.
MaxAttempts == 3

RunCalls == <<"repo", "contributors", "commits">>

Calls == {"repo", "contributors", "commits", "contents"}

\* err of a request: none, a rate-limit error whose reset time lies ahead,
\* a rate-limit error whose reset time has passed, any other error
NoError == ""

RateLimited == "rate_limit"

RateLimitElapsed == "rate_limit_elapsed"

Responses == {NoError, RateLimited, RateLimitElapsed, OtherError}

\* what GitHub reports for the repository
RepoInfo ==
    [StargazersCount |-> 10, ForksCount |-> 3, CreatedAt |-> "t1",
     UpdatedAt |-> "t2"]

ContributorsLen == 8

\* number of commits of the last year
CommitsLens == {30, 104}

WeeksPerYear == 52

ZeroTime == "0001-01-01"

\* stats := GitHubStats{}
zeroStats ==
    [StarCount |-> 0, ForkCount |-> 0, CreatedSince |-> ZeroTime,
     UpdatedSince |-> ZeroTime, ContributorCount |-> 0,
     CommitFrequency |-> 0]

\* handleRateLimitError: the time to wait is positive only for a
\* *github.RateLimitError whose reset time lies ahead
waitIsPositive(err) == err = RateLimited

\* the `if err == nil { stats.X = ... }` block that follows a call
applyResult(st, c, commitsLen) ==
    CASE c = "repo" ->
           [st EXCEPT !.StarCount = RepoInfo.StargazersCount,
                      !.ForkCount = RepoInfo.ForksCount,
                      !.CreatedSince = RepoInfo.CreatedAt,
                      !.UpdatedSince = RepoInfo.UpdatedAt]
      [] c = "contributors" ->
           [st EXCEPT !.ContributorCount = ContributorsLen]
      [] OTHER ->
           [st EXCEPT !.CommitFrequency = commitsLen \div WeeksPerYear]

\* the call that follows c in Run, "update" after the last one
nextCall(c) ==
    CASE c = "repo" -> "contributors"
      [] c = "contributors" -> "commits"
      [] OTHER -> "update"

\* updateDatabase: UPDATE git_metrics SET the six columns WHERE git_link =
\* https://github.com/owner/repo
updateMetricsRow(tbl, link, st) ==
    IF link \in DOMAIN tbl
    THEN [tbl EXCEPT ![link] =
            [@ EXCEPT !.star_count = st.StarCount,
                      !.fork_count = st.ForkCount,
                      !.created_since = st.CreatedSince,
                      !.updated_since = st.UpdatedSince,
                      !.contributor_count = st.ContributorCount,
                      !.commit_frequency = st.CommitFrequency]]
    ELSE tbl

InitGithub ==
    /\ repoLink = <<"https:", "", "github.com", "O", "R">>
    /\ gitMetrics \in {EmptyMap, (repoLink :> OldMetrics)}
    /\ gitMetricsBefore = gitMetrics
    /\ attempts = [c \in Calls |-> 0]
    /\ callErr = [c \in Calls |-> NoError]
    /\ stats = zeroStats
    /\ pc \in {"repo", "contents"}
    /\ IdleCollector /\ IdleSync /\ IdleMigrator

\* Run: the first request of call c and, when it was not rate limited, the
\* block that takes its result
GithubCall(c, resp, commitsLen) ==
    /\ pc = c
    /\ c \in {"repo", "contributors", "commits"}
    /\ attempts' = [attempts EXCEPT ![c] = @ + 1]
    /\ callErr' = [callErr EXCEPT ![c] = resp]
    /\ IF resp # NoError /\ waitIsPositive(resp)
       THEN pc' = c \o "_retry" /\ stats' = stats
       ELSE /\ pc' = nextCall(c)
            /\ stats' = IF resp = NoError
                        THEN applyResult(stats, c, commitsLen)
                        ELSE stats
    /\ UNCHANGED <<repoLink, gitMetrics, gitMetricsBefore, done, syncVars,
                   collectorVars, migratorVars>>

\* Run: time.Sleep(wait), the second request of call c and the block that
\* takes its result
GithubRetry(c, resp, commitsLen) ==
    /\ c \in {"repo", "contributors", "commits"}
    /\ pc = c \o "_retry"
    /\ attempts' = [attempts EXCEPT ![c] = @ + 1]
    /\ callErr' = [callErr EXCEPT ![c] = resp]
    /\ pc' = nextCall(c)
    /\ stats' = IF resp = NoError THEN applyResult(stats, c, commitsLen)
                ELSE stats
    /\ UNCHANGED <<repoLink, gitMetrics, gitMetricsBefore, done, syncVars,
                   collectorVars, migratorVars>>

\* Run: updateDatabase, then return
UpdateMetrics(ok) ==
    /\ pc = "update"
    /\ gitMetrics' = IF ok
                     THEN updateMetricsRow(gitMetrics,
                            <<"https:", "", "github.com",
                              repoLink[4], repoLink[5]>>, stats)
                     ELSE gitMetrics
    /\ pc' = "run_returned"
    /\ UNCHANGED <<repoLink, attempts, callErr, stats, gitMetricsBefore, done,
                   syncVars, collectorVars, migratorVars>>

\* getProjectType: one GetContents request.  On a 403 whose message holds
\* "rate reset in XmYs" the function sleeps and jumps back to `attempt`;
\* any other outcome makes it return.
ContentsGet(resp) ==
    /\ pc = "contents"
    /\ attempts["contents"] < MaxAttempts
    /\ attempts' = [attempts EXCEPT !["contents"] = @ + 1]
    /\ callErr' = [callErr EXCEPT !["contents"] = resp]
    /\ pc' = IF resp = RateLimited THEN pc ELSE "typed"
    /\ UNCHANGED <<repoLink, gitMetrics, gitMetricsBefore, stats, done,
                   syncVars, collectorVars, migratorVars>>

NextGithub ==
    \/ \E c \in Calls, resp \in Responses, commitsLen \in CommitsLens :
         GithubCall(c, resp, commitsLen)
    \/ \E c \in Calls, resp \in Responses, commitsLen \in CommitsLens :
         GithubRetry(c, resp, commitsLen)
    \/ \E ok \in BOOLEAN : UpdateMetrics(ok)
    \/ \E resp \in Responses \ {RateLimitElapsed} : ContentsGet(resp)

SpecGithub == InitGithub /\ [][NextGithub]_vars

\* C14: no GitHub call is requested more than twice for one repository,
\* and a call that ends on a rate-limit error was requested exactly twice:
\* one sleep, one retry, also when GitHub keeps answering rate limited.
C14_RetryOnce ==
    \A c \in Calls :
      /\ attempts[c] <= 2
      /\ (pc \in {"update", "run_returned", "typed"}
            /\ callErr[c] = RateLimited) => attempts[c] = 2

\* the git_metrics columns a call of Run feeds
ColumnsOf(c) ==
    CASE c = "repo" ->
           {"star_count", "fork_count", "created_since", "updated_since"}
      [] c = "contributors" -> {"contributor_count"}
      [] OTHER -> {"commit_frequency"}

\* C15: when Run has returned, the columns fed by a call that ended on an
\* error hold what they held before Run was called.
C15_FailedFetchKeepsColumns ==
    pc = "run_returned" =>
      \A link \in DOMAIN gitMetricsBefore :
        \A c \in {"repo", "contributors", "commits"} :
          callErr[c] # NoError =>
            \A col \in ColumnsOf(c) :
              gitMetrics[link][col] = gitMetricsBefore[link][col]

(***************************************************************************)
(* SpecMigrate: cmd/database-migrator.  A version YYYY_MM_DD_NN is a       *)
(* fixed-width digit string; the model writes it as the number it reads    *)
(* as, so the order of the names is the order of the numbers.              *)
(***************************************************************************)
\* Largest version number of a migration directory.
MaxVersion == 3

\* Largest number of migration directories.
MaxMigrations == 3

\* Largest number of migrator runs.
MaxRuns == 2

\* var lastVersion string = ""
NoVersion == 0

\* a version recorded in the history for which no directory exists
UnknownVersion == MaxVersion + 1

MigrationNames == {"a", "b"}

\* directory entries the scan passes over: a plain file, a directory
\* without migration.sql, a directory whose name is no version_name
SkippedEntries ==
    << [Version |-> NoVersion, Name |-> "README", IsDir |-> FALSE,
        HasSql |-> FALSE, NameMatches |-> FALSE],
       [Version |-> 1, Name |-> "x", IsDir |-> TRUE,
        HasSql |-> FALSE, NameMatches |-> TRUE],
       [Version |-> NoVersion, Name |-> "tmp", IsDir |-> TRUE,
        HasSql |-> TRUE, NameMatches |-> FALSE] >>

MigrationDir(version, name) ==
    [Version |-> version, Name |-> name, IsDir |-> TRUE, HasSql |-> TRUE,
     NameMatches |-> TRUE]

\* os.ReadDir returns the entries sorted by file name: by version, then by
\* the name that follows it
RECURSIVE sortedDirs(_, _, _)
sortedDirs(chosen, version, names) ==
    IF version > MaxVersion THEN <<>>
    ELSE IF names = {} THEN sortedDirs(chosen, version + 1, MigrationNames)
    ELSE LET name == CHOOSE n \in names : \A o \in names : n = "a" \/ o # "a"
         IN  (IF <<version, name>> \in chosen
              THEN <<MigrationDir(version, name)>> ELSE <<>>)
             \o sortedDirs(chosen, version, names \ {name})

\* the listings of a migrations directory
Listings ==
    { sortedDirs(chosen, 1, MigrationNames) \o extra :
        chosen \in {c \in SUBSET ((1..MaxVersion) \X MigrationNames) :
                      Cardinality(c) <= MaxMigrations},
        extra \in {<<>>, SkippedEntries} }

\* main, lines 43-68: the entries that become a MigrationItem
RECURSIVE scanEntries(_, _)
scanEntries(entries, i) ==
    IF i > Len(entries) THEN <<>>
    ELSE LET file == entries[i]
         IN  IF ~file.IsDir \/ ~file.HasSql \/ ~file.NameMatches
             THEN scanEntries(entries, i + 1)
             ELSE <<[Version |-> file.Version, Name |-> file.Name]>>
                  \o scanEntries(entries, i + 1)

\* fromIdx of the first item whose version matches, 0 when none does
RECURSIVE firstMatchAfter(_, _, _)
firstMatchAfter(items, version, i) ==
    IF i > Len(items) THEN 0
    ELSE IF items[i].Version = version THEN i
    ELSE firstMatchAfter(items, version, i + 1)

\* the loop of lines 88-93: fromIdx = i + 1 at the first match, then break
findFromIdx(items, version) == firstMatchAfter(items, version, 1)

\* the migrations a history was written by: a row of _migrations_history
\* is inserted only by line 136, after the SQL of its migration has run
recordedMigrations(versions) ==
    [i \in 1..Len(versions) |-> [Version |-> versions[i], Name |-> "a"]]

InitMigrate ==
    /\ dirEntries \in Listings
    /\ history \in {<<>>, <<UnknownVersion>>}
    /\ historyBefore = history
    /\ migrations = <<>>
    /\ lastVersion = NoVersion /\ fromIdx = 0 /\ migIdx = 0
    /\ executed = <<>>
    /\ appliedSql = recordedMigrations(history)
    /\ migRun = 1
    /\ pc = "scan"
    /\ IdleCollector /\ IdleSync /\ IdleGithub
    /\ gitMetrics = EmptyMap /\ gitMetricsBefore = EmptyMap

\* the loop over the directory entries
ScanDirs ==
    /\ pc = "scan"
    /\ migrations' = scanEntries(dirEntries, 1)
    /\ pc' = "query"
    /\ UNCHANGED <<dirEntries, history, historyBefore, lastVersion, fromIdx,
                   migIdx, executed, appliedSql, migRun>>
    /\ UNCHANGED <<done, collectorVars, syncVars, gitMetrics,
                   gitMetricsBefore, githubVars>>

\* SELECT version FROM _migrations_history ORDER BY id DESC LIMIT 1; when
\* the query fails or returns no row, lastVersion stays ""
QueryHistory(ok) ==
    /\ pc = "query"
    /\ lastVersion' = IF ok /\ history # <<>> THEN history[Len(history)]
                      ELSE NoVersion
    /\ pc' = "locate"
    /\ UNCHANGED <<dirEntries, migrations, history, historyBefore, fromIdx,
                   migIdx, executed, appliedSql, migRun>>
    /\ UNCHANGED <<done, collectorVars, syncVars, gitMetrics,
                   gitMetricsBefore, githubVars>>

\* lines 86-103: fromIdx and the two early returns
Locate ==
    /\ pc = "locate"
    /\ fromIdx' = findFromIdx(migrations, lastVersion)
    /\ pc' = IF lastVersion # NoVersion /\ fromIdx' = 0 THEN "history_unknown"
             ELSE IF fromIdx' = Len(migrations) THEN "up_to_date"
             ELSE "confirm"
    /\ UNCHANGED <<dirEntries, migrations, history, historyBefore,
                   lastVersion, migIdx, executed, appliedSql, migRun>>
    /\ UNCHANGED <<done, collectorVars, syncVars, gitMetrics,
                   gitMetricsBefore, githubVars>>

\* fmt.Scanln(&confirm)
Confirm(confirm) ==
    /\ pc = "confirm"
    /\ IF confirm = "y"
       THEN pc' = "apply" /\ migIdx' = fromIdx
       ELSE pc' = "cancelled" /\ migIdx' = migIdx
    /\ UNCHANGED <<dirEntries, migrations, history, historyBefore,
                   lastVersion, fromIdx, executed, appliedSql, migRun>>
    /\ UNCHANGED <<done, collectorVars, syncVars, gitMetrics,
                   gitMetricsBefore, githubVars>>

\* one pass of the apply loop: read the file, execute it, insert the
\* history row; the first of the three that fails ends the run
ApplyIter(outcome) ==
    /\ pc = "apply"
    /\ LET migration == migrations[migIdx + 1]
       IN  /\ executed' = IF outcome \in {"read_failed", "exec_failed"}
                          THEN executed
                          ELSE Append(executed, migration)
           /\ appliedSql' = IF outcome \in {"read_failed", "exec_failed"}
                            THEN appliedSql
                            ELSE Append(appliedSql, migration)
           /\ history' = IF outcome = "applied"
                         THEN Append(history, migration.Version)
                         ELSE history
    /\ migIdx' = IF outcome = "applied" THEN migIdx + 1 ELSE migIdx
    /\ pc' = IF outcome # "applied" THEN "apply_failed"
             ELSE IF migIdx + 1 = Len(migrations) THEN "migrated"
             ELSE pc
    /\ UNCHANGED <<dirEntries, migrations, historyBefore, lastVersion,
                   fromIdx, migRun>>
    /\ UNCHANGED <<done, collectorVars, syncVars, gitMetrics,
                   gitMetricsBefore, githubVars>>

\* the migrator is started again on the same directory
MigratorRerun ==
    /\ pc \in {"history_unknown", "up_to_date", "cancelled", "apply_failed",
               "migrated"}
    /\ migRun < MaxRuns
    /\ migRun' = migRun + 1
    /\ historyBefore' = history
    /\ migrations' = <<>>
    /\ lastVersion' = NoVersion /\ fromIdx' = 0 /\ migIdx' = 0
    /\ executed' = <<>>
    /\ pc' = "scan"
    /\ UNCHANGED <<dirEntries, history, appliedSql>>
    /\ UNCHANGED <<done, collectorVars, syncVars, gitMetrics,
                   gitMetricsBefore, githubVars>>

NextMigrate ==
    \/ ScanDirs
    \/ \E ok \in BOOLEAN : QueryHistory(ok)
    \/ Locate
    \/ \E confirm \in {"y", "n"} : Confirm(confirm)
    \/ \E outcome \in {"applied", "read_failed", "exec_failed",
                       "history_failed"} : ApplyIter(outcome)
    \/ MigratorRerun

SpecMigrate == InitMigrate /\ [][NextMigrate]_vars

\* the version the history ended with when the run started
LastRecorded ==
    IF historyBefore = <<>> THEN NoVersion
    ELSE historyBefore[Len(historyBefore)]

\* the migrations of the directory with a version above LastRecorded
RECURSIVE pendingFrom(_, _)
pendingFrom(items, i) ==
    IF i > Len(items) THEN <<>>
    ELSE (IF items[i].Version > LastRecorded THEN <<items[i]>> ELSE <<>>)
         \o pendingFrom(items, i + 1)

\* the versions this run has added to the history
RecordedThisRun ==
    SubSeq(history, Len(historyBefore) + 1, Len(history))

\* C18: a run executes only migrations whose version is above the last
\* recorded one, in strictly increasing version order (so each at most
\* once), and each is recorded in the history before the next one starts;
\* a run that goes through has executed exactly those migrations; a run
\* that is not confirmed, finds the database up to date or finds no
\* directory for the last recorded version executes nothing.
C18_PendingInOrder ==
    /\ \A i \in 1..Len(executed) :
         /\ executed[i].Version > LastRecorded
         /\ \A j \in 1..(i - 1) : executed[j].Version < executed[i].Version
    /\ pc = "apply" =>
         RecordedThisRun = [i \in 1..Len(executed) |-> executed[i].Version]
    /\ pc = "migrated" => executed = pendingFrom(migrations, 1)
    /\ pc \in {"cancelled", "up_to_date", "history_unknown"} =>
         executed = <<>>

\* the versions whose SQL has been executed, over all runs
ExecutedVersions == {appliedSql[i].Version : i \in 1..Len(appliedSql)}

\* the versions recorded in _migrations_history
RecordedVersions == {history[i] : i \in 1..Len(history)}

\* C21: over any sequence of migrator runs, failing runs included, the
\* versions whose SQL has been executed are the versions recorded in
\* _migrations_history; no migration has had its SQL executed twice, and a
\* run that went through or found the database up to date has left no
\* migration of the directory unexecuted.
C21_ExecutedEqualsRecorded ==
    /\ ExecutedVersions = RecordedVersions
    /\ \A i, j \in 1..Len(appliedSql) :
         appliedSql[i] = appliedSql[j] => i = j
    /\ pc \in {"migrated", "up_to_date"} =>
         \A i \in 1..Len(migrations) :
           \E j \in 1..Len(appliedSql) : appliedSql[j] = migrations[i]

====
